---------------------------- MODULE Spec2Model ----------------------------
(***************************************************************************)
(* Model of twistedcaldav/scheduling/icaldiff.py: the iCalDiff session     *)
(* (two calendar references, the attendee under test) with its two public  *)
(* operations organizerDiff and attendeeMerge, and the comparison pipeline *)
(* _checkVCALENDARProperties, _compareVTIMEZONEs, _compareComponents and   *)
(* _testComponents.                                                        *)
(*                                                                         *)
(* Calendar objects live in a heap of mutable objects: a reference is a    *)
(* number, duplicate() allocates a new object, and removeAlarms,           *)
(* removeXProperties, attendeesView and prepareSchedulingMessage change    *)
(* the object they are called on.                                          *)
(***************************************************************************)
EXTENDS Integers, FiniteSets, Sequences, TLC

VARIABLES
    heap,        \* reference -> calendar object (1, 2: the caller's documents)
    calendar1,   \* self.calendar1, a reference
    calendar2,   \* self.calendar2, a reference
    attendee,    \* self.attendee (None until attendeeMerge sets it)
    last,        \* the last call made on the session and what it returned
    merged,      \* the attendees attendeeMerge has been called with so far
    again,       \* TRUE when the last call was not the session's first
    comp1,       \* _testComponents called on its own: first argument
    comp2,       \* second argument
    tcResult     \* what that call returned (<<>> before the call)

vars == <<heap, calendar1, calendar2, attendee, last, merged, again, comp1, comp2, tcResult>>

None == "None"

(***************************************************************************)
(* Bounds of the model.                                                    *)
(***************************************************************************)
\* How many edits the attendee's document may be away from the organizer's.
MaxEdits == 2
\* How many properties a component handed to _testComponents on its own has.
MaxProps == 3

(***************************************************************************)
(* The calendar object model: a property is (name, value, parameter), a    *)
(* component is (name, set of properties, set of subcomponents), equality  *)
(* is by content.                                                          *)
(***************************************************************************)
Prop(n, v, p) == [name |-> n, value |-> v, param |-> p]
Comp(n, ps, ss) == [name |-> n, props |-> ps, subs |-> ss]

Attendees == {"mailto:a1", "mailto:a2"}

LOC == Prop("LOCATION", "room", "")
SEQ == Prop("SEQUENCE", "1", "")
DTSTAMP == Prop("DTSTAMP", "t1", "")
RRULE == Prop("RRULE", "FREQ=DAILY", "")
XPROP == Prop("X-APPLE-NOTE", "n", "")
ATT(a, partstat) == Prop("ATTENDEE", a, partstat)
UID(u) == Prop("UID", u, "")
RID(r) == Prop("RECURRENCE-ID", r, "")
TZID(t) == Prop("TZID", t, "")

VERSION == Prop("VERSION", "2.0", "")
PRODID == Prop("PRODID", "client", "")
XWR == Prop("X-WR-CALNAME", "cal", "")

\* The names removeXProperties treats as extensions (name.startswith("X-")).
XNames == {"X-APPLE-NOTE", "X-WR-CALNAME"}

VALARM == Comp("VALARM", {Prop("ACTION", "DISPLAY", "")}, {})
\* A nested component that is not an alarm.
NESTED == Comp("X-NESTED", {Prop("SUMMARY", "s", "")}, {})

\* VTIMEZONE components: the same TZID with the old and with the new rules.
TZ(t, rule) ==
    Comp("VTIMEZONE", {TZID(t)},
         {Comp("STANDARD", {Prop("TZOFFSETTO", rule, "")}, {})})

(***************************************************************************)
(* Component accessors (twistedcaldav.ical.Component, as icaldiff uses it) *)
(***************************************************************************)
\* component.propertyValue(name): the value of the property, or None.
propertyValue(c, n) ==
    IF \E p \in c.props : p.name = n
    THEN (CHOOSE p \in c.props : p.name = n).value
    ELSE None

\* component.getRecurrenceIDUTC(): RECURRENCE-ID values are UTC instants here.
getRecurrenceIDUTC(c) == propertyValue(c, "RECURRENCE-ID")

\* removeAlarms on one component, at every nesting level.
RECURSIVE stripAlarms(_)
stripAlarms(c) ==
    [c EXCEPT !.subs = {stripAlarms(s) : s \in {t \in c.subs : t.name # "VALARM"}}]

\* calendar.removeAlarms()
removeAlarms(cal) == [cal EXCEPT !.comps = {stripAlarms(c) : c \in cal.comps}]

RECURSIVE stripX(_)
stripX(c) ==
    [c EXCEPT !.props = {p \in c.props : p.name \notin XNames},
              !.subs = {stripX(s) : s \in c.subs}]

\* calendar.removeXProperties()
removeXProperties(cal) ==
    [props |-> {p \in cal.props : p.name \notin XNames},
     comps |-> {stripX(c) : c \in cal.comps}]

\* calendar.attendeesView(attendees): only these attendees stay in view.
attendeesView(cal, attendees) ==
    [cal EXCEPT !.comps =
        {[c EXCEPT !.props =
              {p \in c.props : p.name # "ATTENDEE" \/ p.value \in attendees}]
         : c \in cal.comps}]

\* iTipGenerator.prepareSchedulingMessage(calendar): the alarms go.
prepareSchedulingMessage(cal) == removeAlarms(cal)

\* The recurrence instants a master's rule generates.
Instances(master) == IF RRULE \in master.props THEN {"r1"} ELSE {}

\* The value deriveInstance returns for "no instance" (Python's None).
NoComponent == Comp(None, {}, {})

\* calendar.deriveInstance(rid): the master's occurrence at rid, or None.
deriveInstance(cal, rid) ==
    LET masters == {c \in cal.comps :
                       c.name # "VTIMEZONE" /\ getRecurrenceIDUTC(c) = None}
    IN  IF masters = {} THEN NoComponent
        ELSE LET master == CHOOSE c \in masters : TRUE
             IN  IF rid \notin Instances(master) THEN NoComponent
                 ELSE [master EXCEPT !.props = (@ \ {RRULE}) \cup {RID(rid)}]

SymDiff(S, T) == (S \ T) \cup (T \ S)

FF == <<FALSE, FALSE>>

\* A call that ends in Python's KeyError returns nothing.
KeyError == <<"KeyError">>

(***************************************************************************)
(* iCalDiff._checkVCALENDARProperties                                      *)
(***************************************************************************)
IgnoredCalendarNames == {"PRODID", "CALSCALE"}

checkVCALENDARProperties(cal1, cal2) ==
    LET propdiff == {p \in SymDiff(cal1.props, cal2.props) :
                        p.name \notin IgnoredCalendarNames}
    IN  propdiff = {}

(***************************************************************************)
(* iCalDiff._compareVTIMEZONEs                                             *)
(***************************************************************************)
extractTZIDs(cal) ==
    {propertyValue(c, "TZID") : c \in {x \in cal.comps : x.name = "VTIMEZONE"}}

compareVTIMEZONEs(cal1, cal2) == extractTZIDs(cal1) = extractTZIDs(cal2)

(***************************************************************************)
(* iCalDiff._testComponents.  The loop visits the differing properties in  *)
(* the order of a Python set, which the code does not fix: the operators   *)
(* below give the set of results over every visiting order.                *)
(***************************************************************************)
VolatileNames == {"TRANSP", "DTSTAMP", "CREATED", "LAST-MODIFIED", "SEQUENCE"}

\* propVerdict with SEQUENCE left out of the names that are OK to change.
propVerdictNoSequence(prop, att) ==
    IF prop.name \in VolatileNames \ {"SEQUENCE"} THEN "remove"
    ELSE IF prop.name # "ATTENDEE" \/ prop.value # att THEN "fail"
    ELSE "keep"

\* propVerdict accepting a change of any ATTENDEE property.
propVerdictAnyAttendee(prop, att) ==
    IF prop.name \in VolatileNames THEN "remove"
    ELSE IF prop.name # "ATTENDEE" THEN "fail"
    ELSE "keep"

\* The loop body's decision for one differing property.
propVerdict(prop, att) ==
    IF prop.name \in VolatileNames THEN "remove"
    ELSE IF prop.name # "ATTENDEE" \/ prop.value # att THEN "fail"
    ELSE "keep"

\* The loop over tuple(propdiff): todo is what is still to visit, propdiff
\* the working difference set.  ok is FALSE when the loop returned.
RECURSIVE visitProps(_, _, _)
visitProps(todo, propdiff, att) ==
    IF todo = {} THEN {[ok |-> TRUE, propdiff |-> propdiff]}
    ELSE UNION {
           CASE propVerdict(prop, att) = "remove" ->
                    visitProps(todo \ {prop}, propdiff \ {prop}, att)
             [] propVerdict(prop, att) = "fail" ->
                    {[ok |-> FALSE, propdiff |-> propdiff]}
             [] OTHER ->
                    visitProps(todo \ {prop}, propdiff, att)
           : prop \in todo}

testComponents(c1, c2, att) ==
    IF c1.name # c2.name THEN {FF}
    ELSE LET propdiff == SymDiff(c1.props, c2.props)
         IN  {IF ~v.ok THEN FF
              ELSE IF SymDiff(c1.subs, c2.subs) # {} THEN FF
              ELSE <<TRUE, v.propdiff = {}>>
              : v \in visitProps(propdiff, propdiff, att)}

(***************************************************************************)
(* iCalDiff._compareComponents                                             *)
(***************************************************************************)
componentKey(c) == <<c.name, propertyValue(c, "UID"), getRecurrenceIDUTC(c)>>

\* mapComponents(calendar): keys, and the component stored under a key.
mapKeys(cal) == {componentKey(c) : c \in {x \in cal.comps : x.name # "VTIMEZONE"}}

mapComponents(cal) ==
    [k \in mapKeys(cal) |->
        CHOOSE c \in cal.comps : c.name # "VTIMEZONE" /\ componentKey(c) = k]

\* missingComponents with its operands swapped.
missingComponentsSwapped(set1, set2) == set2 \ set1

\* result = set1 - set2
missingComponents(set1, set2) == set1 \ set2

\* What a loop of _compareComponents ends with: it ran to its end (ok, with
\* the accumulated attendee_unchanged), returned False, False, or raised.
LoopEnd(ok, unchanged, raised) == [ok |-> ok, unchanged |-> unchanged, raised |-> raised]

\* The first loop: every component of calendar1 against its counterpart.
\* map2[key] raises KeyError for a key calendar2 does not have.
RECURSIVE loopMatched(_, _, _, _, _)
loopMatched(keys, map1, map2, att, unchanged) ==
    IF keys = {} THEN {LoopEnd(TRUE, unchanged, FALSE)}
    ELSE UNION {
           IF k \notin DOMAIN map2 THEN {LoopEnd(FALSE, FALSE, TRUE)}
           ELSE UNION {IF ~r[1] THEN {LoopEnd(FALSE, FALSE, FALSE)}
                       ELSE loopMatched(keys \ {k}, map1, map2, att, unchanged /\ r[2])
                       : r \in testComponents(map1[k], map2[k], att)}
           : k \in keys}

\* derivedVerdict going on to the next key when there is no derived instance.
derivedVerdictSkip(cal1, key, c2, att) ==
    LET component1 == deriveInstance(cal1, key[3])
    IN  IF component1 = NoComponent THEN {<<TRUE, TRUE>>}
        ELSE testComponents(component1, c2, att)

\* One pass of the second loop: the component of calendar2 under key against
\* the instance derived from calendar1 ("fail" when there is none).
derivedVerdict(cal1, key, c2, att) ==
    LET component1 == deriveInstance(cal1, key[3])
    IN  IF component1 = NoComponent THEN {FF}
        ELSE testComponents(component1, c2, att)

RECURSIVE loopDerived(_, _, _, _, _)
loopDerived(keys, cal1, map2, att, unchanged) ==
    IF keys = {} THEN {LoopEnd(TRUE, unchanged, FALSE)}
    ELSE UNION {
           UNION {IF ~r[1] THEN {LoopEnd(FALSE, FALSE, FALSE)}
                  ELSE loopDerived(keys \ {k}, cal1, map2, att, unchanged /\ r[2])
                  : r \in derivedVerdict(cal1, k, map2[k], att)}
           : k \in keys}

compareComponents(cal1, cal2, att) ==
    LET map1 == mapComponents(cal1)
        set1 == DOMAIN map1
        map2 == mapComponents(cal2)
        set2 == DOMAIN map2
    IN  IF missingComponents(set1, set2) # {} THEN {FF}
        ELSE UNION {
               IF m.raised THEN {KeyError}
               ELSE IF ~m.ok THEN {FF}
               ELSE {IF ~d.ok THEN FF ELSE <<TRUE, d.unchanged>>
                     : d \in loopDerived(set2 \ set1, cal1, map2, att, m.unchanged)}
               : m \in loopMatched(set1, map1, map2, att, TRUE)}

(***************************************************************************)
(* iCalDiff.attendeeMerge, from the comparison of the working copies on.   *)
(***************************************************************************)
mergeCompare(cal1, cal2, att) ==
    IF cal1 = cal2 THEN {<<TRUE, TRUE>>}
    ELSE IF ~checkVCALENDARProperties(cal1, cal2) THEN {FF}
    ELSE IF ~compareVTIMEZONEs(cal1, cal2) THEN {FF}
    ELSE compareComponents(cal1, cal2, att)

(***************************************************************************)
(* The heap: duplicate() makes a new object, the other calendar methods    *)
(* change the object they are called on.  The copy that becomes            *)
(* self.calendar1 is object 3 and the one that becomes self.calendar2 is   *)
(* object 4: the working copy a reference no longer reaches is collected.  *)
(***************************************************************************)
duplicate(h, src, new) ==
    [r \in DOMAIN h \cup {new} |-> IF r = new THEN h[src] ELSE h[r]]

\* The session after the working copies are made: the heap and what
\* self.calendar1 and self.calendar2 refer to.
Session(h, c1, c2) == [heap |-> h, calendar1 |-> c1, calendar2 |-> c2]

\* organizerDiffCopies without the duplicate of calendar1.
organizerDiffCopiesInPlace(h, c1, c2) ==
    LET h2 == [h EXCEPT ![c1] = removeAlarms(@)]
        h3 == duplicate(h2, c2, 4)
        h4 == [h3 EXCEPT ![4] = removeAlarms(@)]
    IN  Session(h4, c1, 4)

\* organizerDiffCopies without self.calendar2.removeAlarms().
organizerDiffCopiesAlarms2(h, c1, c2) ==
    LET h1 == duplicate(h, c1, 3)
        h2 == [h1 EXCEPT ![3] = removeAlarms(@)]
        h3 == duplicate(h2, c2, 4)
    IN  Session(h3, 3, 4)

\* organizerDiff, lines 52-55: the working copies without alarms.
organizerDiffCopies(h, c1, c2) ==
    LET h1 == duplicate(h, c1, 3)
        h2 == [h1 EXCEPT ![3] = removeAlarms(@)]
        h3 == duplicate(h2, c2, 4)
        h4 == [h3 EXCEPT ![4] = removeAlarms(@)]
    IN  Session(h4, 3, 4)

\* organizerDiff, line 57: self.calendar1 == self.calendar2.
organizerDiffReturn(w) ==
    [heap |-> w.heap, calendar1 |-> w.calendar1, calendar2 |-> w.calendar2,
     returns |-> {<<w.heap[w.calendar1] = w.heap[w.calendar2]>>}]

\* organizerDiff: the new heap and references, and what it returns.
organizerDiff(h, c1, c2) == organizerDiffReturn(organizerDiffCopies(h, c1, c2))

\* attendeeMergeCopies without prepareSchedulingMessage(self.calendar1).
attendeeMergeCopiesUnprepared(h, c1, c2, att) ==
    LET h1 == duplicate(h, c1, 3)
        h2 == [h1 EXCEPT ![3] = attendeesView(removeXProperties(@), {att})]
        h3 == duplicate(h2, c2, 4)
        h4 == [h3 EXCEPT ![4] = prepareSchedulingMessage(removeXProperties(@))]
    IN  Session(h4, 3, 4)

\* attendeeMerge, lines 71-78: the normalised working copies.
attendeeMergeCopies(h, c1, c2, att) ==
    LET h1 == duplicate(h, c1, 3)
        h2 == [h1 EXCEPT ![3] = prepareSchedulingMessage(
                                    attendeesView(removeXProperties(@), {att}))]
        h3 == duplicate(h2, c2, 4)
        h4 == [h3 EXCEPT ![4] = prepareSchedulingMessage(removeXProperties(@))]
    IN  Session(h4, 3, 4)

\* attendeeMerge, lines 80-95: the comparison of the working copies.
attendeeMergeReturn(w, att) ==
    [heap |-> w.heap, calendar1 |-> w.calendar1, calendar2 |-> w.calendar2,
     returns |-> mergeCompare(w.heap[w.calendar1], w.heap[w.calendar2], att)]

\* attendeeMerge(attendee): the new heap and references, and the results it
\* may return.
attendeeMerge(h, c1, c2, att) ==
    attendeeMergeReturn(attendeeMergeCopies(h, c1, c2, att), att)

(***************************************************************************)
(* The documents a session is constructed with: the organizer's copy, and  *)
(* an attendee's copy at most MaxEdits edits away from it.                 *)
(***************************************************************************)
A1 == "mailto:a1"
A2 == "mailto:a2"

Toggle(S, x) == IF x \in S THEN S \ {x} ELSE S \cup {x}

Event(u, ps, ss) == Comp("VEVENT", {UID(u)} \cup ps, ss)

\* The organizer's documents.
Doc(atts, rr, ov) ==
    [props |-> {VERSION, PRODID, XWR},
     comps |-> {Event("u1", {LOC, SEQ, XPROP} \cup atts \cup rr, {VALARM}),
                TZ("tz1", "old")}
               \cup {Event("u1", {LOC, RID("r1")} \cup atts, {}) : x \in ov}]

\* A single event of one attendee; a recurring event of one or of two
\* attendees, with and without an override of its first instance.
BaseDocs ==
    {Doc({ATT(A1, "NEEDS-ACTION")}, {}, {})}
    \cup {Doc(atts, {RRULE}, ov)
            : atts \in {{ATT(A1, "NEEDS-ACTION")},
                        {ATT(A1, "NEEDS-ACTION"), ATT(A2, "NEEDS-ACTION")}},
              ov \in {{}, {1}}}

EventProps ==
    {LOC, SEQ, XPROP, RRULE,
     ATT(A1, "NEEDS-ACTION"), ATT(A1, "ACCEPTED"), ATT(A2, "NEEDS-ACTION")}

\* Keys are unique, and so are TZIDs and a component's attendees.
WellFormed(d) ==
    /\ \A c, e \in d.comps :
          (c # e /\ c.name = e.name) =>
             IF c.name = "VTIMEZONE"
             THEN propertyValue(c, "TZID") # propertyValue(e, "TZID")
             ELSE componentKey(c) # componentKey(e)
    /\ \A c \in d.comps : \A p, q \in c.props :
          (p.name = "ATTENDEE" /\ q.name = "ATTENDEE" /\ p.value = q.value) => p = q

\* One edit of an event component.
CompEdits(c) ==
    {[c EXCEPT !.props = Toggle(@, p)] : p \in EventProps}
    \cup {[c EXCEPT !.subs = Toggle(@, s)] : s \in {VALARM, NESTED}}
    \cup {[c EXCEPT !.props = (@ \ {ATT(a, "NEEDS-ACTION")}) \cup {ATT(a, "ACCEPTED")}]
            : a \in {b \in Attendees : ATT(b, "NEEDS-ACTION") \in c.props}}
    \cup {[c EXCEPT !.props = (@ \ {UID("u1")}) \cup {UID("u2")}]}

\* The override a client makes of a master at a recurrence instant.
OverrideOf(master, rid) ==
    [master EXCEPT !.props = (@ \ {RRULE}) \cup {RID(rid)}]

\* One edit of a document.
DocEdits(d) ==
    LET events == {c \in d.comps : c.name # "VTIMEZONE"}
        masters == {c \in events : getRecurrenceIDUTC(c) = None}
        zones == {c \in d.comps : c.name = "VTIMEZONE"}
    IN  {e \in
           {[d EXCEPT !.props = Toggle(@, p)] : p \in {VERSION, PRODID, XWR}}
           \cup {[d EXCEPT !.comps = @ \ {c}] : c \in d.comps}
           \cup UNION {{[d EXCEPT !.comps = (@ \ {c}) \cup {c2}] : c2 \in CompEdits(c)}
                       : c \in events}
           \cup UNION {{[d EXCEPT !.comps = @ \cup {OverrideOf(m, rid)}]
                          : rid \in {"r1", "r2"}} : m \in masters}
           \cup {[d EXCEPT !.comps = (@ \ zones) \cup {z}]
                  : z \in {TZ("tz1", "old"), TZ("tz1", "new"), TZ("tz2", "old")}}
         : WellFormed(e) /\ e # d}

RECURSIVE Variants(_, _)
Variants(d, k) ==
    IF k = 0 THEN {d}
    ELSE LET V == Variants(d, k - 1)
         IN  V \cup UNION {DocEdits(x) : x \in V}

NoCall == [op |-> None, att |-> None, returns |-> <<>>]

Init ==
    /\ \E a \in BaseDocs : \E b \in Variants(a, MaxEdits) :
          heap = (1 :> a) @@ (2 :> b)
    /\ calendar1 = 1
    /\ calendar2 = 2
    /\ attendee = None
    /\ last = NoCall
    /\ merged = {}
    /\ again = FALSE
    /\ comp1 = NoComponent
    /\ comp2 = NoComponent
    /\ tcResult = <<>>

\* A call of organizerDiff() on the session.
OrganizerDiff ==
    \E r \in {organizerDiff(heap, calendar1, calendar2)} :
        /\ heap' = r.heap
        /\ calendar1' = r.calendar1
        /\ calendar2' = r.calendar2
        /\ \E v \in r.returns :
              last' = [op |-> "organizerDiff", att |-> None, returns |-> v]
        /\ again' = (last # NoCall)
        /\ UNCHANGED <<attendee, merged, comp1, comp2, tcResult>>

\* A call of attendeeMerge(att) on the session.
AttendeeMerge(att) ==
    \E r \in {attendeeMerge(heap, calendar1, calendar2, att)} :
        /\ attendee' = att
        /\ heap' = r.heap
        /\ calendar1' = r.calendar1
        /\ calendar2' = r.calendar2
        /\ \E v \in r.returns :
              last' = [op |-> "attendeeMerge", att |-> att, returns |-> v]
        /\ merged' = merged \cup {att}
        /\ again' = (last # NoCall)
        /\ UNCHANGED <<comp1, comp2, tcResult>>

Next ==
    \/ OrganizerDiff
    \/ \E att \in Attendees : AttendeeMerge(att)

Spec == Init /\ [][Next]_vars

(***************************************************************************)
(* _testComponents called on its own, on two components of at most         *)
(* MaxProps properties each, with self.attendee set.                       *)
(***************************************************************************)
TestProps ==
    {LOC, SEQ, DTSTAMP,
     ATT(A1, "NEEDS-ACTION"), ATT(A1, "ACCEPTED"), ATT(A2, "NEEDS-ACTION")}

TestComps(names) ==
    {Comp(n, ps, ss) : n \in names,
                       ps \in {q \in SUBSET TestProps : Cardinality(q) <= MaxProps},
                       ss \in {{}, {NESTED}}}

EmptyCalendar == [props |-> {}, comps |-> {}]

InitTest ==
    /\ heap = (1 :> EmptyCalendar) @@ (2 :> EmptyCalendar)
    /\ calendar1 = 1
    /\ calendar2 = 2
    /\ attendee \in Attendees
    /\ last = NoCall
    /\ merged = {}
    /\ again = FALSE
    /\ comp1 \in TestComps({"VEVENT"})
    /\ comp2 \in TestComps({"VEVENT", "VTODO"})
    /\ tcResult = <<>>

\* A call of _testComponents(comp1, comp2).
TestComponents ==
    /\ tcResult' \in testComponents(comp1, comp2, attendee)
    /\ UNCHANGED <<heap, calendar1, calendar2, attendee, last, merged, again,
                   comp1, comp2>>

NextTest == TestComponents

SpecTest == InitTest /\ [][NextTest]_vars

(***************************************************************************)
(* The claims.                                                             *)
(***************************************************************************)
\* The documents the session was constructed with.
A0 == heap[1]
B0 == heap[2]

TT == <<TRUE, TRUE>>
TF == <<TRUE, FALSE>>

\* What a fresh session over the constructor's documents returns.
FreshHeap == (1 :> heap[1]) @@ (2 :> heap[2])
FreshMerge(att) == attendeeMerge(FreshHeap, 1, 2, att).returns
FreshDiff == organizerDiff(FreshHeap, 1, 2).returns

\* The last call was the session's first, and it was attendeeMerge.
FirstMerge == last.op = "attendeeMerge" /\ ~again

Zones(d) == {c \in d.comps : c.name = "VTIMEZONE"}

\* A difference the attendee att is not allowed to make (the extension
\* properties, which both working copies lose, aside).
NotPermitted(p, att) ==
    /\ p.name \notin VolatileNames
    /\ p.name \notin XNames
    /\ ~(p.name = "ATTENDEE" /\ p.value = att)

\* C1: attendeeMerge(attendee) returns (False, False) whenever a component of
\* B differs from its counterpart in A (same key) in a property that is
\* neither volatile nor the tested attendee's ATTENDEE property.
C1_RejectsEveryOtherChange ==
    FirstMerge =>
       ((\E k \in mapKeys(A0) \cap mapKeys(B0) :
            \E p \in SymDiff(mapComponents(A0)[k].props, mapComponents(B0)[k].props) :
               NotPermitted(p, last.att))
        => last.returns = FF)

\* The differing properties of the two components given to _testComponents.
TestDiff == SymDiff(comp1.props, comp2.props)
Own(p) == p.name = "ATTENDEE" /\ p.value = attendee
Comparable == tcResult # <<>> /\ comp1.name = comp2.name /\ comp1.subs = comp2.subs

\* C2 as stated: for components of one type with equal subcomponents,
\* _testComponents returns (True, False) when only the tested attendee's
\* ATTENDEE property differs, and (False, False) when any other property
\* differs as well.
C2_AnyOtherPropertyFails ==
    Comparable =>
       /\ (TestDiff # {} /\ \A p \in TestDiff : Own(p)) => tcResult = TF
       /\ ((\E p \in TestDiff : Own(p)) /\ (\E p \in TestDiff : ~Own(p)))
             => tcResult = FF

\* C2 amended: for components of one type with equal subcomponents,
\* _testComponents returns (True, False) when only the tested attendee's
\* ATTENDEE property differs, and (False, False) when any other property
\* whose name is not in the volatile list differs as well.
C2_AttendeeExclusivity ==
    Comparable =>
       /\ (TestDiff # {} /\ \A p \in TestDiff : Own(p)) => tcResult = TF
       /\ ((\E p \in TestDiff : Own(p))
           /\ (\E p \in TestDiff : ~Own(p) /\ p.name \notin VolatileNames))
             => tcResult = FF

\* C2 witness: the tested attendee's property and another attendee's both
\* differ, and the comparison has failed.
C2_Witness ==
    /\ Comparable
    /\ \E p \in TestDiff : Own(p)
    /\ \E p \in TestDiff : p.name = "ATTENDEE" /\ ~Own(p)
    /\ \A p \in TestDiff : p.name = "ATTENDEE"
    /\ tcResult = FF

\* C3: a document compared against an identical duplicate of itself gives
\* organizerDiff = True and attendeeMerge(attendee) = (True, True), for every
\* attendee, other attendees in the document included.
C3_SelfComparison ==
    (last # NoCall /\ ~again /\ A0 = B0) =>
       /\ last.op = "organizerDiff" => last.returns = <<TRUE>>
       /\ last.op = "attendeeMerge" => last.returns = TT

\* C4: no call changes the caller's two documents, and the calendars a call
\* strips and filters are duplicates made inside the call.
C4_CallerDocumentsKept ==
    [][/\ heap'[1] = heap[1]
       /\ heap'[2] = heap[2]
       /\ calendar1' \notin {1, 2}
       /\ calendar2' \notin {1, 2}]_vars

\* C4 witness: a call has stripped its working copies, which now differ from
\* the caller's documents.
C4_Witness ==
    /\ last # NoCall
    /\ heap[calendar1] # heap[1]
    /\ heap[calendar2] # heap[2]

\* C5: when a component key of normalised document A is absent from
\* normalised document B, attendeeMerge returns (False, False).
C5_MissingComponent ==
    last.op = "attendeeMerge" =>
       (~(mapKeys(heap[calendar1]) \subseteq mapKeys(heap[calendar2]))
        => last.returns = FF)

\* C5 witness: the calendar properties and the timezones agree, a key of A is
\* missing in B, and attendeeMerge has returned (False, False).
C5_Witness ==
    /\ last.op = "attendeeMerge"
    /\ checkVCALENDARProperties(heap[calendar1], heap[calendar2])
    /\ compareVTIMEZONEs(heap[calendar1], heap[calendar2])
    /\ ~(mapKeys(heap[calendar1]) \subseteq mapKeys(heap[calendar2]))
    /\ last.returns = FF

\* The keys only document B has, and the comparator's verdict on a pair.
ExtraKeys == mapKeys(heap[calendar2]) \ mapKeys(heap[calendar1])
Accepted(c1, c2) == \A r \in testComponents(c1, c2, last.att) : r[1]
Unchanged(c1, c2) == \A r \in testComponents(c1, c2, last.att) : r[2]
Derived(k) == deriveInstance(heap[calendar1], k[3])

\* C6: on the slow path, a key only B has is compared against the instance
\* derived from A: no instance gives (False, False); an accepted result means
\* every such component was derived from the master of its own series and
\* accepted by the comparator; the unchanged flags of all pairs are AND-ed;
\* and when every check passes the result is accepted.
C6_InstanceDerivation ==
    (last.op = "attendeeMerge" /\ heap[calendar1] # heap[calendar2]) =>
       LET cal1 == heap[calendar1]
           cal2 == heap[calendar2]
           map1 == mapComponents(cal1)
           map2 == mapComponents(cal2)
           pairsOk ==
              /\ DOMAIN map1 \subseteq DOMAIN map2
              /\ \A k \in DOMAIN map1 : Accepted(map1[k], map2[k])
           derivedOk ==
              \A k \in ExtraKeys :
                 /\ Derived(k) # NoComponent
                 /\ Accepted(Derived(k), map2[k])
       IN  /\ (\E k \in ExtraKeys : Derived(k) = NoComponent) => last.returns = FF
           /\ last.returns[1] =>
                 /\ derivedOk
                 /\ \A k \in ExtraKeys :
                       /\ propertyValue(Derived(k), "UID") = k[2]
                       /\ Derived(k).name = k[1]
                 /\ last.returns[2] =
                       (/\ \A k \in DOMAIN map1 : Unchanged(map1[k], map2[k])
                        /\ \A k \in ExtraKeys : Unchanged(Derived(k), map2[k]))
           /\ (/\ checkVCALENDARProperties(cal1, cal2)
               /\ compareVTIMEZONEs(cal1, cal2)
               /\ pairsOk
               /\ derivedOk) => last.returns[1]

\* C6 witness: B has an override A has not, and attendeeMerge has accepted it
\* with the attendee's change in it.
C6_Witness ==
    /\ last.op = "attendeeMerge"
    /\ heap[calendar1] # heap[calendar2]
    /\ ExtraKeys # {}
    /\ last.returns = TF

\* The document with the alarms of its components left out.
NoAlarms(d) ==
    [props |-> d.props,
     comps |-> {[c EXCEPT !.subs = {x \in c.subs : x.name # "VALARM"}] : c \in d.comps}]

\* C7: organizerDiff returns True exactly when the two documents are equal
\* with their alarms left out; a difference in a volatile property gives
\* False.
C7_OrganizerDiff ==
    (last.op = "organizerDiff" /\ merged = {}) =>
       /\ last.returns = <<NoAlarms(A0) = NoAlarms(B0)>>
       /\ (\E k \in mapKeys(A0) \cap mapKeys(B0) :
              \E p \in SymDiff(mapComponents(A0)[k].props, mapComponents(B0)[k].props) :
                 p.name \in VolatileNames)
            => last.returns = <<FALSE>>

\* C7 witness: the documents differ, only in alarms, and organizerDiff has
\* returned True.
C7_Witness ==
    /\ last.op = "organizerDiff"
    /\ merged = {}
    /\ A0 # B0
    /\ last.returns = <<TRUE>>

\* A property of each volatile name, and the two of the components' own.
VolatileProps == {SEQ, DTSTAMP} \cup {Prop(n, "v", "") : n \in VolatileNames}

\* C8: adding a volatile property to, or removing it from, either component
\* never changes what _testComponents returns, in any visiting order.
C8_VolatileInvariance ==
    tcResult # <<>> =>
       \A v \in VolatileProps :
          /\ testComponents([comp1 EXCEPT !.props = Toggle(@, v)], comp2, attendee)
                = {tcResult}
          /\ testComponents(comp1, [comp2 EXCEPT !.props = Toggle(@, v)], attendee)
                = {tcResult}

\* C8 witness: the components differ in volatile properties only, and the
\* comparison has returned (True, True).
C8_Witness ==
    /\ TestDiff # {}
    /\ \A p \in TestDiff : p.name \in VolatileNames
    /\ tcResult = TT

\* C9: documents otherwise equal whose timezones have the same TZIDs and
\* different rules are accepted by attendeeMerge; documents whose TZID sets
\* differ get (False, False).
C9_TimezonePresenceOnly ==
    FirstMerge =>
       /\ (/\ A0.props = B0.props
           /\ A0.comps \ Zones(A0) = B0.comps \ Zones(B0)
           /\ extractTZIDs(A0) = extractTZIDs(B0)
           /\ Zones(A0) # Zones(B0)) => last.returns[1]
       /\ extractTZIDs(A0) # extractTZIDs(B0) => last.returns = FF

\* C10 as stated: whatever was called on the session before, a call returns
\* what it returns on a fresh session over the constructor's documents.
C10_HistoryIndependent ==
    /\ last.op = "organizerDiff" => last.returns \in FreshDiff
    /\ last.op = "attendeeMerge" => last.returns \in FreshMerge(last.att)

\* C10 amended: organizerDiff returns what it returns on a fresh session when
\* no attendeeMerge was called before it, and attendeeMerge(x) does when no
\* attendeeMerge with another attendee was called before it.
C10_HistoryIndependentSameView ==
    /\ (last.op = "organizerDiff" /\ merged = {}) => last.returns \in FreshDiff
    /\ (last.op = "attendeeMerge" /\ merged = {last.att})
          => last.returns \in FreshMerge(last.att)

\* C10 witness: attendeeMerge(x) on a session that was used before, for
\* organizerDiff or attendeeMerge(x) only, on working copies that are not the
\* constructor's documents.
C10_Witness ==
    /\ again
    /\ last.op = "attendeeMerge"
    /\ merged = {last.att}
    /\ heap[calendar1] # heap[1]
    /\ last.returns = TF

=============================================================================
